---- MODULE Spec2Model ----
(***************************************************************************)
(* Swing high / swing low detection and date projection of src/app.py.     *)
(*                                                                         *)
(* One behaviour is one analysis: a bar series and the two pivot lengths   *)
(* are chosen in Init, find_swing_dates scans the series one loop          *)
(* iteration per step, calculate_projected_dates is applied to the highs   *)
(* and to the lows, and main renders the markers and the download buttons. *)
(* Indices are 0-based as in Python; sequences are 1-based, so bar i is    *)
(* element i + 1.  Timestamps are whole hours.                             *)
(***************************************************************************)
EXTENDS Integers, Sequences, FiniteSets, TLC

\* Bounds of the model.
MaxBars == 5
MaxLen == 2

\* Hours between two bars: "1 Day" and "Weekly" of interval_options.
Intervals == {24, 168}

\* The pivot lengths find_swing_dates is called with: every pair of
\* 0..MaxLen, and negative lengths on either side or both.
PvtLens == {<<l, r>> : l \in 0..MaxLen, r \in 0..MaxLen}
             \cup {<<0 - 1, 1>>, <<1, 0 - 1>>, <<0 - 1, 0 - 1>>}

\* The prices of a bar.  The scan only compares prices, so two levels per
\* field give every outcome of a comparison (less, equal, greater); the levels
\* keep high >= low in every bar, and a bar of high 3 and low 1 between two
\* bars of high 2 and low 2 is a strict maximum and a strict minimum at once.
HighPrices == {2, 3}
LowPrices == {1, 2}

VARIABLES
    high,                \* data['high']
    low,                 \* data['low']
    dates,               \* data.index
    pvtLenL,
    pvtLenR,
    i,                   \* loop variable of find_swing_dates
    pc,
    swing_high_dates,
    swing_high_prices,
    swing_low_dates,
    swing_low_prices,
    high_projection_df,
    low_projection_df,
    all_markers,
    downloads            \* the download buttons main offers

vars == <<high, low, dates, pvtLenL, pvtLenR, i, pc, swing_high_dates,
          swing_high_prices, swing_low_dates, swing_low_prices,
          high_projection_df, low_projection_df, all_markers, downloads>>

Min(a, b) == IF a < b THEN a ELSE b
Max(a, b) == IF a > b THEN a ELSE b

----------------------------------------------------------------------------
\* pandas / Python indexing

\* A slice bound as Python normalises it: a negative one counts from the end,
\* and both ends are clamped to the sequence.
SliceBound(s, x) == IF x < 0 THEN Max(x + Len(s), 0) ELSE Min(x, Len(s))

\* s.iloc[a:b]
ILocSlice(s, a, b) ==
    LET lo == SliceBound(s, a)
        hi == SliceBound(s, b)
    IN  IF lo >= hi THEN <<>> ELSE SubSeq(s, lo + 1, hi)

\* s.iloc[k] raises IndexError outside -len .. len-1
InBounds(s, k) == 0 - Len(s) <= k /\ k < Len(s)

\* s.iloc[k]
ILoc(s, k) == IF k < 0 THEN s[Len(s) + k + 1] ELSE s[k + 1]

----------------------------------------------------------------------------
\* find_swing_dates

\* (current > window).all()
AllGreaterEq(current, window) == \A k \in 1..Len(window) : current >= window[k]

AllGreater(current, window) == \A k \in 1..Len(window) : current > window[k]

\* (current < window).all()
AllLess(current, window) == \A k \in 1..Len(window) : current < window[k]

RangeStartEarly == pvtLenL - 1

\* range(pvtLenL, len(data) - pvtLenR)
RangeStart == pvtLenL

RangeEndLate == Len(high) - pvtLenR + 1

RangeEnd == Len(high) - pvtLenR

IsSwingHighWeakRight(k) ==
    /\ AllGreater(ILoc(high, k), ILocSlice(high, k - pvtLenL, k))
    /\ AllGreaterEq(ILoc(high, k), ILocSlice(high, k + 1, k + 1 + pvtLenR))

IsSwingHighWeak(k) ==
    /\ AllGreaterEq(ILoc(high, k), ILocSlice(high, k - pvtLenL, k))
    /\ AllGreaterEq(ILoc(high, k), ILocSlice(high, k + 1, k + 1 + pvtLenR))

IsSwingHigh(k) ==
    /\ AllGreater(ILoc(high, k), ILocSlice(high, k - pvtLenL, k))
    /\ AllGreater(ILoc(high, k), ILocSlice(high, k + 1, k + 1 + pvtLenR))

IsSwingLowElif(k) ==
    /\ ~IsSwingHigh(k)
    /\ AllLess(ILoc(low, k), ILocSlice(low, k - pvtLenL, k))
    /\ AllLess(ILoc(low, k), ILocSlice(low, k + 1, k + 1 + pvtLenR))

IsSwingLow(k) ==
    /\ AllLess(ILoc(low, k), ILocSlice(low, k - pvtLenL, k))
    /\ AllLess(ILoc(low, k), ILocSlice(low, k + 1, k + 1 + pvtLenR))

HighPriceOfLow(k) == ILoc(low, k)

\* current_high = high_series.iloc[i]
HighPrice(k) == ILoc(high, k)

\* current_low = low_series.iloc[i]
LowPrice(k) == ILoc(low, k)

Prepend(list, x) == <<x>> \o list

\* list.append(x)
ListAppend(list, x) == Append(list, x)

\* One iteration of the for loop: both checks, then the next index.
ScanStep ==
    /\ pc = "scan"
    /\ i < RangeEnd
    /\ InBounds(high, i)
    /\ IF IsSwingHigh(i)
          THEN /\ swing_high_dates' = ListAppend(swing_high_dates, ILoc(dates, i))
               /\ swing_high_prices' = ListAppend(swing_high_prices, HighPrice(i))
          ELSE UNCHANGED <<swing_high_dates, swing_high_prices>>
    /\ IF IsSwingLow(i)
          THEN /\ swing_low_dates' = ListAppend(swing_low_dates, ILoc(dates, i))
               /\ swing_low_prices' = ListAppend(swing_low_prices, LowPrice(i))
          ELSE UNCHANGED <<swing_low_dates, swing_low_prices>>
    /\ i' = i + 1
    /\ UNCHANGED <<high, low, dates, pvtLenL, pvtLenR, pc, high_projection_df,
                   low_projection_df, all_markers, downloads>>

\* high_series.iloc[i] raises: the call ends without a result.
ScanIndexError ==
    /\ pc = "scan"
    /\ i < RangeEnd
    /\ ~InBounds(high, i)
    /\ pc' = "IndexError"
    /\ UNCHANGED <<high, low, dates, pvtLenL, pvtLenR, i, swing_high_dates,
                   swing_high_prices, swing_low_dates, swing_low_prices,
                   high_projection_df, low_projection_df, all_markers, downloads>>

\* The range is exhausted: return the four lists.
ScanReturn ==
    /\ pc = "scan"
    /\ i >= RangeEnd
    /\ pc' = "scanned"
    /\ UNCHANGED <<high, low, dates, pvtLenL, pvtLenR, i, swing_high_dates,
                   swing_high_prices, swing_low_dates, swing_low_prices,
                   high_projection_df, low_projection_df, all_markers, downloads>>

----------------------------------------------------------------------------
\* calculate_projected_dates

periods == <<30, 60, 90, 120, 180, 270, 360>>

\* pd.DataFrame(): no columns, no rows
EmptyDataFrame == <<>>

\* datetime.timedelta(days=n), in hours
timedelta(days) == days * 24

\* The column label f'{type_label} Date', f'{type_label} Price' or
\* f'{type_label} +{period}d'
ColumnName(type_label, kind, period) == <<type_label, kind, period>>

BusinessDayColumn(pivot_dates, period) ==
    [k \in 1..Len(pivot_dates) |-> pivot_dates[k] + timedelta(period + 2 * (period \div 5))]

\* [date + timedelta(days=period) for date in dates]
ProjectedColumn(pivot_dates, period) ==
    [k \in 1..Len(pivot_dates) |-> pivot_dates[k] + timedelta(period)]

\* A data frame is the sequence of its columns, in the order they were added.
calculate_projected_dates(pivot_dates, prices, type_label) ==
    IF pivot_dates = <<>>
    THEN EmptyDataFrame
    ELSE <<[name |-> ColumnName(type_label, "Date", 0), values |-> pivot_dates],
           [name |-> ColumnName(type_label, "Price", 0), values |-> prices]>>
         \o [j \in 1..Len(periods) |->
                [name |-> ColumnName(type_label, "+d", periods[j]),
                 values |-> ProjectedColumn(pivot_dates, periods[j])]]

\* len(df)
NRows(df) == IF Len(df) = 0 THEN 0 ELSE Len(df[1].values)

\* df.empty
IsEmpty(df) == Len(df) = 0 \/ NRows(df) = 0

\* row[name] of the r-th row of df.iterrows()
Cell(df, r, name) == df[CHOOSE c \in 1..Len(df) : df[c].name = name].values[r]

ProjectHigh ==
    /\ pc = "scanned"
    /\ high_projection_df' =
           calculate_projected_dates(swing_high_dates, swing_high_prices, "Swing High")
    /\ pc' = "projected_high"
    /\ UNCHANGED <<high, low, dates, pvtLenL, pvtLenR, i, swing_high_dates,
                   swing_high_prices, swing_low_dates, swing_low_prices,
                   low_projection_df, all_markers, downloads>>

ProjectLow ==
    /\ pc = "projected_high"
    /\ low_projection_df' =
           calculate_projected_dates(swing_low_dates, swing_low_prices, "Swing Low")
    /\ pc' = "projected_low"
    /\ UNCHANGED <<high, low, dates, pvtLenL, pvtLenR, i, swing_high_dates,
                   swing_high_prices, swing_low_dates, swing_low_prices,
                   high_projection_df, all_markers, downloads>>

----------------------------------------------------------------------------
\* main: the chart markers and the two projection tabs

\* int(date.timestamp()): epoch seconds of a timestamp in hours.  The chart's
\* factor of 1000 is left to the renderer.
timestamp(date) == date * 3600

\* The markers of one projection table, row by row and period by period.
ProjectionMarkers(df, type_label, position, shape, prefix) ==
    [m \in 1..(NRows(df) * Len(periods)) |->
        LET r == ((m - 1) \div Len(periods)) + 1
            j == ((m - 1) % Len(periods)) + 1
        IN  [time |-> timestamp(Cell(df, r, ColumnName(type_label, "+d", periods[j]))),
             position |-> position,
             color |-> j,
             shape |-> shape,
             text |-> <<prefix, periods[j]>>]]

\* The markers of the swing points themselves.
SwingMarkers(pivot_dates, position, text) ==
    [m \in 1..Len(pivot_dates) |->
        [time |-> timestamp(pivot_dates[m]),
         position |-> position,
         color |-> 0,
         shape |-> "circle",
         text |-> <<text, 0>>]]

DownloadAlways(df) == TRUE

\* if not df.empty: st.download_button(...)
DownloadOffered(df) == ~IsEmpty(df)

Render ==
    /\ pc = "projected_low"
    /\ all_markers' =
           ProjectionMarkers(high_projection_df, "Swing High", "aboveBar", "arrowDown", "H+")
           \o ProjectionMarkers(low_projection_df, "Swing Low", "belowBar", "arrowUp", "L+")
           \o SwingMarkers(swing_high_dates, "aboveBar", "H")
           \o SwingMarkers(swing_low_dates, "belowBar", "L")
    /\ downloads' =
           {kind \in {"Swing High", "Swing Low"} :
               DownloadOffered(IF kind = "Swing High"
                               THEN high_projection_df ELSE low_projection_df)}
    /\ pc' = "done"
    /\ UNCHANGED <<high, low, dates, pvtLenL, pvtLenR, i, swing_high_dates,
                   swing_high_prices, swing_low_dates, swing_low_prices,
                   high_projection_df, low_projection_df>>

----------------------------------------------------------------------------
\* The series: MaxBars bars at most, timestamps strictly increasing.
Init ==
    /\ \E n \in 0..MaxBars :
          /\ high \in [1..n -> HighPrices]
          /\ low \in [1..n -> LowPrices]
          /\ \E step \in Intervals : dates = [k \in 1..n |-> k * step]
    /\ \E p \in PvtLens : pvtLenL = p[1] /\ pvtLenR = p[2]
    /\ i = RangeStart
    /\ pc = "scan"
    /\ swing_high_dates = <<>>
    /\ swing_high_prices = <<>>
    /\ swing_low_dates = <<>>
    /\ swing_low_prices = <<>>
    /\ high_projection_df = EmptyDataFrame
    /\ low_projection_df = EmptyDataFrame
    /\ all_markers = <<>>
    /\ downloads = {}

Next ==
    \/ ScanStep
    \/ ScanIndexError
    \/ ScanReturn
    \/ ProjectHigh
    \/ ProjectLow
    \/ Render

Spec == Init /\ [][Next]_vars

----------------------------------------------------------------------------
\* Properties

\* Both pivot lengths are positive.
PositiveLens == pvtLenL >= 1 /\ pvtLenR >= 1

\* The index of the bar a timestamp belongs to (timestamps are unique).
IndexOfDate(d) == CHOOSE k \in 0..(Len(dates) - 1) : dates[k + 1] = d

\* The indices of the left and right windows of bar k.
Window(k) == ((k - pvtLenL)..(k + pvtLenR)) \ {k}

\* Bar k has a full window on both sides.
Interior(k) == pvtLenL <= k /\ k < Len(high) - pvtLenR

StrictMax(series, k) == \A j \in Window(k) : series[k + 1] > series[j + 1]

StrictMin(series, k) == \A j \in Window(k) : series[k + 1] < series[j + 1]

Flat(series) == \A a, b \in 1..Len(series) : series[a] = series[b]

Returned == pc \in {"scanned", "projected_high", "projected_low", "done"}

\* C1: with positive pivot lengths every emitted swing high is strictly
\* greater than every high of its left and right windows, every emitted swing
\* low strictly less than every low of its windows, and a flat series has no
\* pivot of either kind.
C1_Strictness ==
    PositiveLens =>
        /\ \A k \in 1..Len(swing_high_dates) :
              LET idx == IndexOfDate(swing_high_dates[k])
              IN  \A j \in Window(idx) :
                     /\ j \in 0..(Len(high) - 1)
                     /\ high[idx + 1] > high[j + 1]
        /\ \A k \in 1..Len(swing_low_dates) :
              LET idx == IndexOfDate(swing_low_dates[k])
              IN  \A j \in Window(idx) :
                     /\ j \in 0..(Len(low) - 1)
                     /\ low[idx + 1] < low[j + 1]
        /\ (Flat(high) => swing_high_dates = <<>>)
        /\ (Flat(low) => swing_low_dates = <<>>)

\* The scan is over, both kinds of pivot were found, and an interior bar whose
\* high ties the largest high of its window was passed over.
C1_Witness ==
    /\ PositiveLens
    /\ pc = "scanned"
    /\ swing_high_dates # <<>>
    /\ swing_low_dates # <<>>
    /\ \E k \in 0..(Len(high) - 1) :
          /\ Interior(k)
          /\ \A j \in Window(k) : high[k + 1] >= high[j + 1]
          /\ \E j \in Window(k) : high[k + 1] = high[j + 1]
          /\ \A m \in 1..Len(swing_high_dates) : swing_high_dates[m] # dates[k + 1]

\* C2: with positive pivot lengths no pivot is emitted at an index below
\* pvtLenL or at or above len(bars) - pvtLenR.
C2_WindowExclusivity ==
    PositiveLens =>
        /\ \A k \in 1..Len(swing_high_dates) : Interior(IndexOfDate(swing_high_dates[k]))
        /\ \A k \in 1..Len(swing_low_dates) : Interior(IndexOfDate(swing_low_dates[k]))

\* The scan is over, a pivot was found, and the first bar, which is above
\* every bar of its right window, and the last bar, which is above every bar
\* of its left window, were not emitted.
C2_Witness ==
    /\ PositiveLens
    /\ pc = "scanned"
    /\ swing_low_dates # <<>>
    /\ Len(high) > pvtLenL + pvtLenR
    /\ \A j \in 1..pvtLenR : high[1] > high[1 + j]
    /\ \A j \in 1..pvtLenL : high[Len(high)] > high[Len(high) - j]
    /\ \A m \in 1..Len(swing_high_dates) :
          swing_high_dates[m] \notin {dates[1], dates[Len(dates)]}

\* C3: with positive pivot lengths a series of at most pvtLenL + pvtLenR
\* bars gives four empty lists and no error.
C3_EmptyBelowThreshold ==
    (PositiveLens /\ Len(high) <= pvtLenL + pvtLenR) =>
        /\ pc # "IndexError"
        /\ swing_high_dates = <<>>
        /\ swing_high_prices = <<>>
        /\ swing_low_dates = <<>>
        /\ swing_low_prices = <<>>

\* A series of exactly pvtLenL + pvtLenR bars was scanned and returned, and
\* its bar pvtLenL is above the bars to its left and the bars it has to its
\* right.
C3_Witness ==
    /\ PositiveLens
    /\ Returned
    /\ Len(high) = pvtLenL + pvtLenR
    /\ \A j \in 0..(Len(high) - 1) : j # pvtLenL => high[pvtLenL + 1] > high[j + 1]

\* C4: called with pvtLenL <= 0 or pvtLenR <= 0 the scan scans no bar and
\* returns no result.
C4_FailFast ==
    (pvtLenL <= 0 \/ pvtLenR <= 0) => (~Returned /\ i = RangeStart)

\* The literal offsets of the claim, in days.
C5_Offsets == <<30, 60, 90, 120, 180, 270, 360>>

\* A table holds one row per pivot, in order, with the pivot's date and
\* price and the seven offset dates, in hours, in offset order.
C5_TableOf(df, type_label, pivot_dates, prices) ==
    /\ Len(df) = 2 + Len(C5_Offsets)
    /\ \A c \in 1..Len(df) : Len(df[c].values) = Len(pivot_dates)
    /\ df[1].name = <<type_label, "Date", 0>>
    /\ df[2].name = <<type_label, "Price", 0>>
    /\ \A r \in 1..Len(pivot_dates) :
          /\ df[1].values[r] = pivot_dates[r]
          /\ df[2].values[r] = prices[r]
          /\ \A j \in 1..Len(C5_Offsets) :
                /\ df[2 + j].name = <<type_label, "+d", C5_Offsets[j]>>
                /\ df[2 + j].values[r] = pivot_dates[r] + 24 * C5_Offsets[j]
                /\ df[2 + j].values[r] > pivot_dates[r]
                /\ j > 1 => df[2 + j].values[r] > df[1 + j].values[r]

\* C5: for a non-empty pivot list calculate_projected_dates returns one row
\* per pivot in input order, carrying its date and price and, for each offset
\* of 30, 60, 90, 120, 180, 270, 360 in that order, the date plus that many
\* calendar days, each later than the date.
C5_Projection ==
    /\ (pc \in {"projected_high", "projected_low", "done"} /\ swing_high_dates # <<>>) =>
          C5_TableOf(high_projection_df, "Swing High", swing_high_dates, swing_high_prices)
    /\ (pc \in {"projected_low", "done"} /\ swing_low_dates # <<>>) =>
          C5_TableOf(low_projection_df, "Swing Low", swing_low_dates, swing_low_prices)

\* Both tables were computed from two pivots or more.
C5_Witness ==
    /\ pc = "projected_low"
    /\ Len(swing_high_dates) >= 2
    /\ Len(swing_low_dates) >= 2
    /\ NRows(high_projection_df) >= 2
    /\ NRows(low_projection_df) >= 2

\* C6: with positive pivot lengths both date lists are strictly ascending.
C6_Ascending ==
    PositiveLens =>
        /\ \A a, b \in 1..Len(swing_high_dates) :
              a < b => /\ swing_high_dates[a] < swing_high_dates[b]
                       /\ IndexOfDate(swing_high_dates[a]) < IndexOfDate(swing_high_dates[b])
        /\ \A a, b \in 1..Len(swing_low_dates) :
              a < b => /\ swing_low_dates[a] < swing_low_dates[b]
                       /\ IndexOfDate(swing_low_dates[a]) < IndexOfDate(swing_low_dates[b])

\* The scan returned two swing highs and two swing lows.
C6_Witness ==
    /\ PositiveLens
    /\ pc = "scanned"
    /\ Len(swing_high_dates) >= 2
    /\ Len(swing_low_dates) >= 2

\* The indices the loop has dealt with so far.
Scanned == {k \in 0..(Len(high) - 1) : Interior(k) /\ k < i}

\* C7: with positive pivot lengths every scanned interior bar that is a
\* strict maximum of its window is in the swing-high list and every one that
\* is a strict minimum is in the swing-low list, whatever the other check
\* says; a bar that is both is in both.
C7_IndependentComplete ==
    PositiveLens =>
        \A k \in Scanned :
            /\ StrictMax(high, k) => \E m \in 1..Len(swing_high_dates) :
                                        swing_high_dates[m] = dates[k + 1]
            /\ StrictMin(low, k) => \E m \in 1..Len(swing_low_dates) :
                                       swing_low_dates[m] = dates[k + 1]

\* The scan returned a bar in both lists.
C7_Witness ==
    /\ PositiveLens
    /\ pc = "scanned"
    /\ \E k \in Scanned :
          /\ StrictMax(high, k)
          /\ StrictMin(low, k)
          /\ \E m \in 1..Len(swing_high_dates) : swing_high_dates[m] = dates[k + 1]
          /\ \E m \in 1..Len(swing_low_dates) : swing_low_dates[m] = dates[k + 1]

\* No projection marker of the kind, and no download button for it.
C8_NothingShown(prefix, type_label) ==
    /\ \A m \in 1..Len(all_markers) : all_markers[m].text[1] # prefix
    /\ type_label \notin downloads

\* C8: for an empty pivot list calculate_projected_dates returns a table of
\* no rows, and main then shows no projection marker and no download button
\* of that kind.
C8_EmptyPivots ==
    /\ (pc \in {"projected_high", "projected_low", "done"} /\ swing_high_dates = <<>>) =>
          NRows(high_projection_df) = 0
    /\ (pc \in {"projected_low", "done"} /\ swing_low_dates = <<>>) =>
          NRows(low_projection_df) = 0
    /\ (pc = "done" /\ swing_high_dates = <<>>) => C8_NothingShown("H+", "Swing High")
    /\ (pc = "done" /\ swing_low_dates = <<>>) => C8_NothingShown("L+", "Swing Low")

\* main has rendered an analysis with no swing high and some swing low: the
\* lows have their markers and their button.
C8_Witness ==
    /\ pc = "done"
    /\ Len(high) > 0
    /\ swing_high_dates = <<>>
    /\ swing_low_dates # <<>>
    /\ \E m \in 1..Len(all_markers) : all_markers[m].text[1] = "L+"
    /\ downloads = {"Swing Low"}

\* C9: the date list and the price list of each kind have the same length,
\* and the price at a position is the high (the low) of the bar whose
\* timestamp is the date at that position.
C9_Aligned ==
    /\ Len(swing_high_prices) = Len(swing_high_dates)
    /\ Len(swing_low_prices) = Len(swing_low_dates)
    /\ \A k \in 1..Len(swing_high_dates) :
          swing_high_prices[k] = high[IndexOfDate(swing_high_dates[k]) + 1]
    /\ \A k \in 1..Len(swing_low_dates) :
          swing_low_prices[k] = low[IndexOfDate(swing_low_dates[k]) + 1]

\* The scan returned pivots of both kinds at different bars of a series whose
\* highs differ and whose lows differ.
C9_Witness ==
    /\ pc = "scanned"
    /\ swing_high_dates # <<>>
    /\ swing_low_dates # <<>>
    /\ swing_high_dates[1] # swing_low_dates[1]
    /\ ~Flat(high)
    /\ ~Flat(low)

\* C10: with positive pivot lengths two swing highs are more than
\* min(pvtLenL, pvtLenR) bars apart, and so are two swing lows.
C10_Spacing ==
    PositiveLens =>
        /\ \A a, b \in 1..Len(swing_high_dates) :
              a # b => LET ia == IndexOfDate(swing_high_dates[a])
                           ib == IndexOfDate(swing_high_dates[b])
                       IN  ia # ib /\ (ia < ib => ib - ia > Min(pvtLenL, pvtLenR))
        /\ \A a, b \in 1..Len(swing_low_dates) :
              a # b => LET ia == IndexOfDate(swing_low_dates[a])
                           ib == IndexOfDate(swing_low_dates[b])
                       IN  ia # ib /\ (ia < ib => ib - ia > Min(pvtLenL, pvtLenR))

\* The scan returned two swing highs exactly min(pvtLenL, pvtLenR) + 1 bars
\* apart.
C10_Witness ==
    /\ PositiveLens
    /\ pc = "scanned"
    /\ \E a, b \in 1..Len(swing_high_dates) :
          IndexOfDate(swing_high_dates[b]) - IndexOfDate(swing_high_dates[a])
              = Min(pvtLenL, pvtLenR) + 1

====
